---- MODULE Spec2Model ----
(***************************************************************************)
(* Model of the link-graph subsystem (src/src/tools/links.py) and of the   *)
(* Kanban structure engine (src/src/tools/kanban.py with the pydantic      *)
(* models of src/src/models/obsidian.py).                                  *)
(*                                                                         *)
(* Strings that the code compares or rewrites are modelled structurally:   *)
(* a note reference or path is a record [dir, stem, ext] standing for the  *)
(* string  dir/stem(.md) ; a card text is a sequence of tokens on which    *)
(* the due-date regex and str.strip() are computed.                        *)
(***************************************************************************)
EXTENDS Integers, Sequences, FiniteSets, TLC

VARIABLES
    vault,          \* per walk position: [readable, content] of the markdown file
    op,             \* name of the link tool that ran last ("none" before any)
    graph,          \* graph returned by build_link_graph in that call
    orphaned,       \* result list of find_orphaned_notes
    hubs,           \* result list of find_hub_notes
    min_outlinks,   \* threshold argument of find_hub_notes
    health,         \* result record of analyze_link_health
    conn,           \* outcome of get_note_connections
    file,           \* the board file: its text, as the lines between newlines
    kop,            \* name of the Kanban tool that ran last ("none" when idle)
    board,          \* board the call parsed from the file
    after,          \* board the call wrote back (a mutating call)
    kret,           \* what the call returned or raised
    kargs,          \* the arguments the call was given
    writes,         \* number of mutating calls so far
    calls,          \* per concurrent caller: the mutating call it is in
    walk            \* get_note_connections in progress: its call stack and sets

linkVars == <<vault, op, graph, orphaned, hubs, min_outlinks, health, conn>>

kanbanVars == <<file, kop, board, after, kret, kargs, writes>>

vars == <<linkVars, kanbanVars, calls, walk>>

\* Python's None where a path is expected (TLC compares records with records only)
None == [dir |-> "None", stem |-> "None", ext |-> FALSE]

\* the callers that may be in a Kanban call at the same time: each is a server
\* process of its own (a client starts its own server), or a thread of one
Callers == { "p", "q" }

NotCalling == [ pc |-> "idle" ]

NoCalls == [ p \in Callers |-> NotCalling ]

\* no get_note_connections call is in progress
NoWalk == [ pc |-> "idle" ]

(***************************************************************************)
(* Bounds                                                                  *)
(***************************************************************************)
MaxTotalLinks == 3      \* links written in the whole vault
MaxDepth == 2           \* largest depth argument of get_note_connections
MaxThreshold == 2       \* largest min_outlinks argument of find_hub_notes
MaxLines == 4           \* lines of the board file before any call
MaxWrites == 1          \* mutating Kanban calls in one behaviour

(***************************************************************************)
(* Strings                                                                 *)
(***************************************************************************)
Str(d, s, e) == [dir |-> d, stem |-> s, ext |-> e]

\* str.replace('.md', '') ; the names of the model hold '.md' only as extension
ReplaceMd(s) == [s EXCEPT !.ext = FALSE]

\* name if name.endswith('.md') else name + '.md'
WithMd(s) == [s EXCEPT !.ext = TRUE]

\* The markdown files of the vault, in the order Path.rglob('*.md') yields them
WalkOrder == << Str("", "A", TRUE), Str("", "B", TRUE),
                Str("", "C", TRUE), Str("sub", "A", TRUE) >>

NumNotes == Len(WalkOrder)

\* a markdown file of the metadata directory: rglob yields it as well
MetadataFile == Str(".obsidian", "Missing", TRUE)

\* everything vault_path.rglob('*.md') yields
RglobOrder == WalkOrder \o << MetadataFile >>

\* '.obsidian' in md_file.parts
InObsidian(p) == p.dir = ".obsidian"

\* md_file.stem
FileStem(p) == Str("", p.stem, FALSE)

\* Link syntaxes a note may hold:  [[target]]  [text](url)  ![[target]]
LinkTokens == << [kind |-> "wikilink", target |-> Str("", "A", FALSE)],
                 [kind |-> "wikilink", target |-> Str("", "B", FALSE)],
                 [kind |-> "wikilink", target |-> Str("", "C", FALSE)],
                 [kind |-> "wikilink", target |-> Str("", "Missing", FALSE)] >>

NoteRefs == { Str("", "A", FALSE), Str("", "C", TRUE), Str("", "Missing", FALSE) }

(***************************************************************************)
(* Sequence helpers                                                        *)
(***************************************************************************)
Range(s) == { s[i] : i \in DOMAIN s }

InSeq(x, s) == \E i \in DOMAIN s : s[i] = x

RECURSIVE SumSeq(_)
SumSeq(s) == IF s = <<>> THEN 0 ELSE Head(s) + SumSeq(Tail(s))

RECURSIVE SelectIdx(_, _, _)
\* the elements of s at the positions for which keep holds, in order
SelectIdx(s, keep, i) ==
    IF i > Len(s) THEN <<>>
    ELSE (IF keep[i] THEN <<s[i]>> ELSE <<>>) \o SelectIdx(s, keep, i + 1)

PermsOf(S) ==
    { f \in [1..Cardinality(S) -> S] : \A i, j \in DOMAIN f : f[i] = f[j] => i = j }

(***************************************************************************)
(* Link extraction (extract_all_links)                                     *)
(***************************************************************************)
\* WIKILINK_PATTERN finds [[t]] anywhere, also inside an embed ![[t]]
wikilinks_of(content) ==
    SelectIdx([i \in DOMAIN content |-> content[i].target],
              [i \in DOMAIN content |-> content[i].kind \in {"wikilink", "embed"}], 1)

\* [text](url): a trailing '.md' of the url is cut off
markdown_links_of(content) ==
    SelectIdx([i \in DOMAIN content |-> ReplaceMd(content[i].target)],
              [i \in DOMAIN content |-> content[i].kind = "markdown"], 1)

embeds_of(content) ==
    SelectIdx([i \in DOMAIN content |-> content[i].target],
              [i \in DOMAIN content |-> content[i].kind = "embed"], 1)

\* set(wikilinks + markdown_links + embeds); list(...) of it has no defined order
all_links_set(content) ==
    Range(wikilinks_of(content) \o markdown_links_of(content) \o embeds_of(content))

extract_all_links(content, order) ==
    [ wikilinks |-> wikilinks_of(content),
      markdown_links |-> markdown_links_of(content),
      embeds |-> embeds_of(content),
      all_links |-> order ]

RECURSIVE SetOrders(_, _)
\* one iteration order of the all_links set for every file of the walk
SetOrders(v, i) ==
    IF i = 0 THEN { <<>> }
    ELSE { Append(r, o) : r \in SetOrders(v, i - 1),
                          o \in PermsOf(all_links_set(v[i].content)) }

(***************************************************************************)
(* Note resolver (find_note_by_name)                                       *)
(***************************************************************************)
Candidates(note_name) == << WithMd(note_name), ReplaceMd(note_name) >>

CandidateMatches(p, candidate) ==
    \/ FileStem(p) = candidate
    \/ FileStem(p) = ReplaceMd(candidate)
    \/ p = candidate
    \/ ReplaceMd(p) = ReplaceMd(candidate)

FileMatches(p, note_name) ==
    \E k \in 1..2 : CandidateMatches(p, Candidates(note_name)[k])

RECURSIVE FirstMatch(_, _)
FirstMatch(note_name, i) ==
    IF i > Len(RglobOrder) THEN None
    ELSE IF InObsidian(RglobOrder[i]) THEN FirstMatch(note_name, i + 1)
    ELSE IF FileMatches(RglobOrder[i], note_name) THEN RglobOrder[i]
    ELSE FirstMatch(note_name, i + 1)

find_note_by_name(note_name) == FirstMatch(note_name, 1)

(***************************************************************************)
(* Graph builder (build_link_graph)                                        *)
(***************************************************************************)
DefaultNode ==
    [ outlinks |-> <<>>, inlinks |-> <<>>,
      link_types |-> [wikilinks |-> 0, markdown_links |-> 0, embeds |-> 0] ]

EmptyGraph == [ keys |-> <<>>, node |-> <<>> ]

Keys(g) == Range(g.keys)

\* graph[p] of the defaultdict: a missing key is inserted with the default node
Touch(g, p) ==
    IF p \in Keys(g) THEN g
    ELSE [ keys |-> Append(g.keys, p),
           node |-> [ k \in Keys(g) \cup {p} |-> IF k = p THEN DefaultNode ELSE g.node[k] ] ]

\* a plain list push
AppendAlways(s, x) == Append(s, x)

AppendIfAbsent(s, x) == IF InSeq(x, s) THEN s ELSE Append(s, x)

Put(m, k, val) == [ x \in DOMAIN m \cup {k} |-> IF x = k THEN val ELSE m[x] ]

Get(m, k) == IF k \in DOMAIN m THEN m[k] ELSE None

RECURSIVE FirstPass(_, _)
\* all_notes[stem] = all_notes[relative_path] = relative_path, later files overwrite
FirstPass(m, i) ==
    IF i > Len(RglobOrder) THEN m
    ELSE IF InObsidian(RglobOrder[i]) THEN FirstPass(m, i + 1)
    ELSE FirstPass(Put(Put(m, FileStem(RglobOrder[i]), RglobOrder[i]),
                       RglobOrder[i], RglobOrder[i]), i + 1)

all_notes == FirstPass(<<>>, 1)

\* all_notes.get(link) or all_notes.get(link.replace('.md', ''))
ResolveLink(link) ==
    IF Get(all_notes, link) # None THEN Get(all_notes, link)
    ELSE Get(all_notes, ReplaceMd(link))

\* mutant: the target's node is created but the source is not registered in its inlinks
AddInlinkForgotten(g, target_path, relative_path) == Touch(g, target_path)

AddInlink(g, target_path, relative_path) ==
    LET g1 == Touch(g, target_path)
    IN  [ g1 EXCEPT !.node[target_path].inlinks = AppendIfAbsent(@, relative_path) ]

\* a builder that registers the inlink only
AddOutlinkForgotten(g, relative_path, target_path) == g

AddOutlink(g, relative_path, target_path) ==
    [ g EXCEPT !.node[relative_path].outlinks = AppendIfAbsent(@, target_path) ]

\* a builder that gives a link to no file a node of its own
AddEdgePlaceholder(g, relative_path, link) ==
    LET target_path == IF ResolveLink(link) = None THEN WithMd(link) ELSE ResolveLink(link)
    IN  AddInlink(AddOutlink(g, relative_path, target_path), target_path, relative_path)

AddEdge(g, relative_path, link) ==
    LET target_path == ResolveLink(link)
    IN  IF target_path = None THEN g
        ELSE AddInlink(AddOutlink(g, relative_path, target_path), target_path, relative_path)

RECURSIVE AddEdges(_, _, _, _)
AddEdges(g, relative_path, links, j) ==
    IF j > Len(links) THEN g
    ELSE AddEdges(AddEdge(g, relative_path, links[j]), relative_path, links, j + 1)

TrackLinkTypes(g, relative_path, links) ==
    LET g1 == Touch(g, relative_path)
    IN  [ g1 EXCEPT !.node[relative_path].link_types =
             [ wikilinks |-> Len(links.wikilinks),
               markdown_links |-> Len(links.markdown_links),
               embeds |-> Len(links.embeds) ] ]

RECURSIVE SecondPass(_, _, _, _)
SecondPass(v, orders, g, i) ==
    IF i > Len(RglobOrder) THEN g
    ELSE IF InObsidian(RglobOrder[i]) THEN SecondPass(v, orders, g, i + 1)
    ELSE IF ~v[i].readable THEN SecondPass(v, orders, g, i + 1)
    ELSE LET links == extract_all_links(v[i].content, orders[i])
             g1 == TrackLinkTypes(g, RglobOrder[i], links)
         IN  SecondPass(v, orders, AddEdges(g1, RglobOrder[i], links.all_links, 1), i + 1)

build_link_graph(v, orders) == SecondPass(v, orders, EmptyGraph, 1)

(***************************************************************************)
(* Graph analytics                                                         *)
(***************************************************************************)
\* mutant: "or" in place of "and"
IsOrphanedEither(data) == Len(data.inlinks) = 0 \/ Len(data.outlinks) = 0

IsOrphaned(data) == Len(data.inlinks) = 0 /\ Len(data.outlinks) = 0

RECURSIVE OrphanScan(_, _)
OrphanScan(g, i) ==
    IF i > Len(g.keys) THEN <<>>
    ELSE (IF IsOrphaned(g.node[g.keys[i]])
          THEN << [file_path |-> g.keys[i], inlink_count |-> 0, outlink_count |-> 0] >>
          ELSE <<>>) \o OrphanScan(g, i + 1)

find_orphaned_notes(g) == OrphanScan(g, 1)

\* mutant: strict comparison with the threshold
IsHubStrict(outlink_count, m) == outlink_count > m

IsHub(outlink_count, m) == outlink_count >= m

RECURSIVE HubScan(_, _, _)
HubScan(g, m, i) ==
    IF i > Len(g.keys) THEN <<>>
    ELSE LET data == g.node[g.keys[i]]
         IN  (IF IsHub(Len(data.outlinks), m)
              THEN << [ file_path |-> g.keys[i],
                        outlink_count |-> Len(data.outlinks),
                        inlink_count |-> Len(data.inlinks),
                        outlinks |-> data.outlinks ] >>
              ELSE <<>>) \o HubScan(g, m, i + 1)

\* position of x in a list already sorted by outlink_count descending: behind
\* every entry whose count is not smaller (list.sort is stable, also reversed)
RECURSIVE InsertDesc(_, _)
InsertDesc(sorted, x) ==
    IF sorted = <<>> THEN << x >>
    ELSE IF Head(sorted).outlink_count >= x.outlink_count
         THEN << Head(sorted) >> \o InsertDesc(Tail(sorted), x)
         ELSE << x >> \o sorted

RECURSIVE SortDesc(_, _)
SortDesc(done, rest) ==
    IF rest = <<>> THEN done ELSE SortDesc(InsertDesc(done, Head(rest)), Tail(rest))

find_hub_notes(g, m) == SortDesc(<<>>, HubScan(g, m, 1))

CountKeys(g, P(_)) == Cardinality({ k \in Keys(g) : P(g.node[k]) })

NoInlinks(data) == Len(data.inlinks) = 0

NoOutlinks(data) == Len(data.outlinks) = 0

\* round(a / b, 2) in hundredths, 0 when b = 0
Round2(a, b) == IF b > 0 THEN (200 * a + b) \div (2 * b) ELSE 0

\* mutant: "and" in place of "or", an unresolved target is no longer reported
IsBrokenOnlyOutsideGraph(g, link) ==
    LET target_path == find_note_by_name(link)
    IN  target_path # None /\ target_path \notin Keys(g)

IsBroken(g, link) ==
    LET target_path == find_note_by_name(link)
    IN  target_path = None \/ target_path \notin Keys(g)

RECURSIVE BrokenOfFile(_, _, _, _)
BrokenOfFile(g, relative_source, links, j) ==
    IF j > Len(links) THEN <<>>
    ELSE (IF IsBroken(g, links[j])
          THEN << [source_file |-> relative_source, target |-> links[j]] >>
          ELSE <<>>) \o BrokenOfFile(g, relative_source, links, j + 1)

RECURSIVE BrokenScan(_, _, _, _)
BrokenScan(v, orders, g, i) ==
    IF i > Len(RglobOrder) THEN <<>>
    ELSE IF InObsidian(RglobOrder[i]) THEN BrokenScan(v, orders, g, i + 1)
    ELSE IF ~v[i].readable THEN BrokenScan(v, orders, g, i + 1)
    ELSE BrokenOfFile(g, RglobOrder[i],
                      extract_all_links(v[i].content, orders[i]).all_links, 1)
         \o BrokenScan(v, orders, g, i + 1)

analyze_link_health(v, orders, g) ==
    LET total_notes == Len(g.keys)
        total_outlinks == SumSeq([i \in DOMAIN g.keys |-> Len(g.node[g.keys[i]].outlinks)])
        total_inlinks == SumSeq([i \in DOMAIN g.keys |-> Len(g.node[g.keys[i]].inlinks)])
        broken_links == BrokenScan(v, orders, g, 1)
    IN  [ total_notes |-> total_notes,
          total_links |-> total_outlinks,
          orphaned_notes |-> CountKeys(g, IsOrphaned),
          notes_with_no_inlinks |-> CountKeys(g, NoInlinks),
          notes_with_no_outlinks |-> CountKeys(g, NoOutlinks),
          broken_links |-> broken_links,
          broken_links_count |-> Len(broken_links),
          average_outlinks_per_note |-> Round2(total_outlinks, total_notes),
          average_inlinks_per_note |-> Round2(total_inlinks, total_notes),
          link_density_score |-> Round2(total_outlinks, total_notes) ]

NoHealth == [ total_notes |-> 0 ]

(***************************************************************************)
(* Neighborhood exploration (get_note_connections)                         *)
(***************************************************************************)
\* mutant: the depth test is off by one
PrunedLate(current_depth, depth, current_path, visited) ==
    current_depth > depth + 1 \/ current_path \in visited

\* a guard without the visited set
PrunedByDepth(current_depth, depth, current_path, visited) == current_depth > depth

\* the guard of explore_connections: return without visiting
Pruned(current_depth, depth, current_path, visited) ==
    current_depth > depth \/ current_path \in visited

RECURSIVE explore_connections(_, _, _, _, _)
RECURSIVE ExploreEach(_, _, _, _, _, _)
explore_connections(g, depth, current_path, current_depth, st) ==
    IF Pruned(current_depth, depth, current_path, st.visited) THEN st
    ELSE LET st1 == [ st EXCEPT !.visited = @ \cup {current_path} ]
         IN  IF current_path \notin Keys(g) THEN st1
             ELSE ExploreEach(g, depth, g.node[current_path].outlinks, 1, current_depth + 1,
                     [ st1 EXCEPT !.connections =
                          Put(@, current_path, [depth |-> current_depth]),
                                  !.expanded = Append(@, current_path) ])

ExploreEach(g, depth, outlinks, j, d, st) ==
    IF j > Len(outlinks) THEN st
    ELSE ExploreEach(g, depth, outlinks, j + 1, d,
                     explore_connections(g, depth, outlinks[j], d, st))

NoConn == [ status |-> "none" ]

\* a lookup that answers a reference to no note with an empty neighborhood
get_note_connections_lenient(g, note_name, depth) ==
    LET note_path == find_note_by_name(note_name)
    IN  IF note_path = None \/ note_path \notin Keys(g)
        THEN [ status |-> "ok", note_name |-> note_name, depth |-> depth,
               note |-> note_path, direct_inlinks |-> <<>>, direct_outlinks |-> <<>>,
               connections |-> <<>>, expanded |-> <<>> ]
        ELSE LET data == g.node[note_path]
                 st == ExploreEach(g, depth, data.outlinks, 1, 1,
                          [ connections |-> <<>>, visited |-> {}, expanded |-> <<>> ])
             IN  [ status |-> "ok", note_name |-> note_name, depth |-> depth,
                   note |-> note_path,
                   direct_inlinks |-> data.inlinks, direct_outlinks |-> data.outlinks,
                   connections |-> st.connections, expanded |-> st.expanded ]

get_note_connections(g, note_name, depth) ==
    LET note_path == find_note_by_name(note_name)
    IN  IF note_path = None
        THEN [ status |-> "not_found", note_name |-> note_name, depth |-> depth ]
        ELSE IF note_path \notin Keys(g)
        THEN [ status |-> "ok", note_name |-> note_name, depth |-> depth,
               note |-> note_path, direct_inlinks |-> <<>>, direct_outlinks |-> <<>>,
               connections |-> <<>>, expanded |-> <<>> ]
        ELSE LET data == g.node[note_path]
                 st == ExploreEach(g, depth, data.outlinks, 1, 1,
                          [ connections |-> <<>>, visited |-> {}, expanded |-> <<>> ])
             IN  [ status |-> "ok", note_name |-> note_name, depth |-> depth,
                   note |-> note_path,
                   direct_inlinks |-> data.inlinks, direct_outlinks |-> data.outlinks,
                   connections |-> st.connections, expanded |-> st.expanded ]

(***************************************************************************)
(* Kanban: card texts as token sequences                                   *)
(*   "w" "v" words, "sp" a blank, "open" = @{ , "close" = } ,              *)
(*   "dA" = 2025-10-30, "dB" = 2025-11-01, "bad" = 2025-13-45,             *)
(*   "dA1" = 2025- and "dA2" = 10-30 (together the digits of dA)           *)
(***************************************************************************)
NoDate == "None"

DateBodies == { "dA", "dB", "bad" }

\* length of the KANBAN_DATE match that starts at token i, 0 when none starts there
DateMatchLen(t, i) ==
    IF t[i] # "open" THEN 0
    ELSE IF i + 2 <= Len(t) /\ t[i + 1] \in DateBodies /\ t[i + 2] = "close" THEN 3
    ELSE IF i + 3 <= Len(t) /\ t[i + 1] = "dA1" /\ t[i + 2] = "dA2" /\ t[i + 3] = "close"
         THEN 4
    ELSE 0

\* group(1) of the match at i
DateMatchBody(t, i) == IF DateMatchLen(t, i) = 4 THEN "dA" ELSE t[i + 1]

RECURSIVE DateSearch(_, _)
\* KANBAN_DATE.search: position of the leftmost match, 0 when there is none
DateSearch(t, i) ==
    IF i > Len(t) THEN 0
    ELSE IF DateMatchLen(t, i) > 0 THEN i
    ELSE DateSearch(t, i + 1)

RECURSIVE DateSub(_, _)
\* KANBAN_DATE.sub("", text): every non-overlapping match removed, left to right
DateSub(t, i) ==
    IF i > Len(t) THEN <<>>
    ELSE IF DateMatchLen(t, i) > 0 THEN DateSub(t, i + DateMatchLen(t, i))
    ELSE << t[i] >> \o DateSub(t, i + 1)

\* datetime.strptime(body, "%Y-%m-%d").date(), None on ValueError
Strptime(body) == IF body = "bad" THEN NoDate ELSE body

\* due_date.strftime('%Y-%m-%d')
Strftime(d) == d

RECURSIVE LStrip(_)
LStrip(t) == IF t # <<>> /\ Head(t) = "sp" THEN LStrip(Tail(t)) ELSE t

RECURSIVE RStrip(_)
RStrip(t) ==
    IF t # <<>> /\ t[Len(t)] = "sp" THEN RStrip(SubSeq(t, 1, Len(t) - 1)) ELSE t

\* str.strip()
Strip(t) == RStrip(LStrip(t))

parse_card_metadata(card_text) ==
    LET i == DateSearch(card_text, 1)
    IN  [ due_date |-> IF i = 0 THEN NoDate ELSE Strptime(DateMatchBody(card_text, i)) ]

(***************************************************************************)
(* Kanban: lines of the board file                                         *)
(***************************************************************************)
Blank == [ kind |-> "blank" ]

Heading(level, name) == [ kind |-> "heading", level |-> level, name |-> name ]

\* indent: number of whitespace characters before the dash
CardLine(indent, checkbox, text) ==
    [ kind |-> "card", indent |-> indent, checkbox |-> checkbox, text |-> text ]

Rule == [ kind |-> "rule" ]                 \* ---

PluginKey == [ kind |-> "plugin_key" ]      \* kanban-plugin: basic

\* text.split on newlines of "\n".join(lines)
JoinLines(lines) == IF lines = <<>> THEN << Blank >> ELSE lines

\* str.splitlines(): no empty last line for a text that ends with a newline
SplitLines(f) ==
    IF f[Len(f)] = Blank THEN SubSeq(f, 1, Len(f) - 1) ELSE f

\* KANBAN_COLUMN.match(line): ^(#{2,3})\s+(.+)$
ColumnMatch(line) == line.kind = "heading" /\ line.level \in {2, 3}

\* column_match and column_match.group(1) == "##"
StartsColumn(line) == ColumnMatch(line) /\ line.level = 2

\* KANBAN_CARD.match(line)
CardMatch(line) == line.kind = "card"

(***************************************************************************)
(* Kanban: models (pydantic validators run when the object is constructed) *)
(***************************************************************************)
\* KanbanColumn.compute_card_count
compute_card_count(cards) == Len(cards)

KanbanColumn(name, cards, line_number) ==
    [ name |-> name, cards |-> cards,
      card_count |-> compute_card_count(cards), line_number |-> line_number ]

\* KanbanBoard.compute_total_cards
compute_total_cards(columns) ==
    SumSeq([i \in DOMAIN columns |-> columns[i].card_count])

\* cards live in a heap, card[id] with id the number of the card's line; the
\* lists of a column or of a card hold ids
KanbanBoard(columns, card, settings) ==
    [ ok |-> TRUE, columns |-> columns, card |-> card, settings |-> settings,
      total_cards |-> compute_total_cards(columns) ]

\* KanbanCard.validate_text raises on a text that is empty after stripping
TextValid(text) == Strip(text) # <<>>

KanbanCard(text, status, due_date, indent_level, line_number) ==
    [ text |-> Strip(text), status |-> status, due_date |-> due_date,
      subtasks |-> <<>>, indent_level |-> indent_level, line_number |-> line_number ]

Raised(error) == [ ok |-> FALSE, error |-> error ]

NoColumn == [ name |-> "None" ]

\* the heap holds one entry for each line of the file, this one for a line
\* that made no card
NoCard == [ status |-> "none" ]

NoBoard == [ ok |-> FALSE, error |-> "none" ]

(***************************************************************************)
(* Kanban: parse_kanban_structure                                          *)
(***************************************************************************)
IndentLevel(indent) == indent \div 2

\* a nesting step that keeps a card of the same indentation on the stack
PopWhileDeeper(top_indent, indent_level) == top_indent > indent_level

\* the while loop of the nesting step pops while this holds for the stack top
PopWhile(top_indent, indent_level) == top_indent >= indent_level

RECURSIVE PopStack(_, _, _)
PopStack(card, card_stack, indent_level) ==
    IF card_stack # <<>>
       /\ PopWhile(card[card_stack[Len(card_stack)]].indent_level, indent_level)
    THEN PopStack(card, SubSeq(card_stack, 1, Len(card_stack) - 1), indent_level)
    ELSE card_stack

AsRoot(st, id) ==
    [ st EXCEPT !.current_column.cards = Append(@, id), !.card_stack = << id >> ]

\* a nesting step that hangs the card under the bottom of the stack
AsSubtaskOfBottom(st, stack, id) ==
    [ st EXCEPT !.card[stack[1]].subtasks = Append(@, id),
                !.card_stack = Append(stack, id) ]

AsSubtask(st, stack, id) ==
    [ st EXCEPT !.card[stack[Len(stack)]].subtasks = Append(@, id),
                !.card_stack = Append(stack, id) ]

\* "Handle nesting" for the card id, already in the heap
Nest(st, id) ==
    LET indent_level == st.card[id].indent_level
    IN  IF indent_level = 0 THEN AsRoot(st, id)
        ELSE LET stack == PopStack(st.card, st.card_stack, indent_level)
             IN  IF stack # <<>> THEN AsSubtask(st, stack, id) ELSE AsRoot(st, id)

ParseCard(st, line, line_num) ==
    LET card_text == Strip(line.text)
        metadata == parse_card_metadata(card_text)
        clean_text == Strip(DateSub(card_text, 1))
        status == IF line.checkbox \in {"x", "X"} THEN "completed" ELSE "incomplete"
    IN  IF ~TextValid(clean_text) THEN [ st EXCEPT !.ok = FALSE ]
        ELSE Nest([ st EXCEPT !.card[line_num] =
                        KanbanCard(clean_text, status, metadata.due_date,
                                   IndentLevel(line.indent), line_num) ],
                  line_num)

CloseColumn(st) ==
    IF st.current_column # NoColumn THEN Append(st.columns, st.current_column)
    ELSE st.columns

ParseLine(st, line, line_num) ==
    IF StartsColumn(line)
    THEN [ st EXCEPT !.columns = CloseColumn(st),
                     !.current_column = KanbanColumn(line.name, <<>>, line_num),
                     !.card_stack = <<>> ]
    ELSE IF CardMatch(line) /\ st.current_column # NoColumn
    THEN ParseCard(st, line, line_num)
    ELSE st

RECURSIVE ParseLines(_, _, _)
ParseLines(st, lines, line_num) ==
    IF line_num > Len(lines) \/ ~st.ok THEN st
    ELSE ParseLines(ParseLine([ st EXCEPT !.card = Append(@, NoCard) ],
                              lines[line_num], line_num),
                    lines, line_num + 1)

\* re.match(r"^---\s*\n(.*?)\n---", content): the block between a first line ---
\* and the next line that starts with --- ; "kanban-plugin:" in it
HasPluginFrontmatter(lines) ==
    /\ Len(lines) >= 3
    /\ lines[1] = Rule
    /\ \E j \in 3..Len(lines) :
           /\ lines[j] = Rule
           /\ \A i \in 2..(j - 1) : lines[i] # Rule
           /\ \E i \in 2..(j - 1) : lines[i] = PluginKey

NoSettings == "none"

parse_kanban_structure(f) ==
    LET lines == SplitLines(f)
        st == ParseLines([ ok |-> TRUE, columns |-> <<>>, current_column |-> NoColumn,
                           card_stack |-> <<>>, card |-> <<>> ], lines, 1)
    IN  IF ~st.ok THEN Raised("ValueError")
        ELSE KanbanBoard(CloseColumn(st), st.card,
                         IF HasPluginFrontmatter(f) THEN "basic" ELSE NoSettings)

(***************************************************************************)
(* Kanban: format_kanban_card, write_kanban_board, find_card_in_board      *)
(***************************************************************************)
format_kanban_card(c, indent) ==
    CardLine(2 * indent,
             IF c.status = "completed" THEN "x" ELSE " ",
             c.text \o (IF c.due_date # NoDate
                        THEN << "sp", "open", Strftime(c.due_date), "close" >>
                        ELSE <<>>))

RECURSIVE write_cards(_, _, _)
write_cards(b, cards, indent) ==
    IF cards = <<>> THEN <<>>
    ELSE << format_kanban_card(b.card[Head(cards)], indent) >>
         \o write_cards(b, b.card[Head(cards)].subtasks, indent + 1)
         \o write_cards(b, Tail(cards), indent)

RECURSIVE WriteColumns(_, _)
WriteColumns(b, i) ==
    IF i > Len(b.columns) THEN <<>>
    ELSE << Heading(2, b.columns[i].name), Blank >>
         \o write_cards(b, b.columns[i].cards, 0)
         \o << Blank >>
         \o WriteColumns(b, i + 1)

\* the text write_kanban_board writes to the file
write_kanban_board(b) ==
    JoinLines((IF b.settings # NoSettings THEN << Rule, PluginKey, Rule, Blank >> ELSE <<>>)
              \o WriteColumns(b, 1))

NotFound == [ found |-> FALSE ]

RECURSIVE search_cards_flat(_, _, _, _)
\* a search that does not descend into subtasks
search_cards_flat(b, cards, parent, card_text) ==
    IF cards = <<>> THEN NotFound
    ELSE IF b.card[Head(cards)].text = card_text
    THEN [ found |-> TRUE, card |-> Head(cards), parent |-> parent ]
    ELSE search_cards_flat(b, Tail(cards), parent, card_text)

RECURSIVE search_cards(_, _, _, _)
\* depth-first, first card whose text equals card_text; parent 0 for a root card
search_cards(b, cards, parent, card_text) ==
    IF cards = <<>> THEN NotFound
    ELSE IF b.card[Head(cards)].text = card_text
    THEN [ found |-> TRUE, card |-> Head(cards), parent |-> parent ]
    ELSE LET result == search_cards(b, b.card[Head(cards)].subtasks, Head(cards), card_text)
         IN  IF result.found THEN result
             ELSE search_cards(b, Tail(cards), parent, card_text)

NoParent == -1

RECURSIVE SearchColumns(_, _, _, _)
SearchColumns(b, card_text, column_name, i) ==
    IF i > Len(b.columns) THEN NotFound
    ELSE IF column_name # "None" /\ b.columns[i].name # column_name
    THEN SearchColumns(b, card_text, column_name, i + 1)
    ELSE LET result == search_cards(b, b.columns[i].cards, NoParent, card_text)
         IN  IF result.found
             THEN [ found |-> TRUE, column |-> i, card |-> result.card,
                    parent |-> result.parent ]
             ELSE SearchColumns(b, card_text, column_name, i + 1)

\* a lookup that does not narrow the search to the column it is given
find_card_in_any_column(b, card_text, column_name) == SearchColumns(b, card_text, "None", 1)

find_card_in_board(b, card_text, column_name) == SearchColumns(b, card_text, column_name, 1)

(***************************************************************************)
(* Kanban: the tools (read the file, parse, change the board, write back)  *)
(***************************************************************************)
\* a lookup that falls back to the first column for a name no column has
ColumnIndexOrFirst(b, name) ==
    IF \E i \in DOMAIN b.columns : b.columns[i].name = name
    THEN CHOOSE i \in DOMAIN b.columns :
             /\ b.columns[i].name = name
             /\ \A j \in 1..(i - 1) : b.columns[j].name # name
    ELSE IF b.columns = <<>> THEN 0 ELSE 1

\* next((i for c in board.columns if c.name == name), None); 0 for None
ColumnIndex(b, name) ==
    IF \E i \in DOMAIN b.columns : b.columns[i].name = name
    THEN CHOOSE i \in DOMAIN b.columns :
             /\ b.columns[i].name = name
             /\ \A j \in 1..(i - 1) : b.columns[j].name # name
    ELSE 0

\* cards.insert(0, card) or cards.append(card)
\* an insertion that ignores the position it is given
InsertAtEnd(cards, position, id) == Append(cards, id)

Insert(cards, position, id) ==
    IF position = "start" THEN << id >> \o cards ELSE Append(cards, id)

\* a removal that takes the cards behind the card with it
RemoveThrough(cards, id) ==
    LET i == CHOOSE i \in DOMAIN cards : cards[i] = id
    IN  SubSeq(cards, 1, i - 1)

\* list.remove(card): the first element equal to it goes
Remove(cards, id) ==
    LET i == CHOOSE i \in DOMAIN cards :
                 cards[i] = id /\ \A j \in 1..(i - 1) : cards[j] # id
    IN  SubSeq(cards, 1, i - 1) \o SubSeq(cards, i + 1, Len(cards))

\* a call: the board it parsed, the board it wrote, what it returned or raised,
\* and the file it leaves behind
Outcome(b, a, ret, f) == [ board |-> b, after |-> a, ret |-> ret, file |-> f ]

Failed(b, f, error) == Outcome(b, NoBoard, Raised(error), f)

\* raise ValueError(f"...: {name}")
RaisedNaming(error, name) == [ ok |-> FALSE, error |-> error, name |-> name ]

FailedNaming(b, f, error, name) == Outcome(b, NoBoard, RaisedNaming(error, name), f)

NoArgs == [ file_path |-> "none" ]

NoRet == [ ok |-> FALSE, error |-> "none" ]

\* line_number of a card created by add_kanban_card_fs_tool
NewCardLine == 0

ColumnToDict(col) == [ name |-> col.name, card_count |-> col.card_count, cards |-> col.cards ]

parse_kanban_board_fs_tool(f) ==
    LET b == parse_kanban_structure(f)
    IN  IF ~b.ok THEN Failed(b, f, "ValueError")
        ELSE Outcome(b, NoBoard,
                     [ ok |-> TRUE, total_cards |-> b.total_cards,
                       columns |-> [i \in DOMAIN b.columns |-> ColumnToDict(b.columns[i])] ],
                     f)

add_kanban_card_fs_tool(f, column_name, card_text, status, due_date, position) ==
    LET b == parse_kanban_structure(f)
        target_column == ColumnIndex(b, column_name)
        new_card == KanbanCard(card_text, status, Strptime(due_date), 0, NewCardLine)
        id == Len(b.card) + 1
        a == [ b EXCEPT !.card = Append(@, new_card),
                        !.columns[target_column].cards = Insert(@, position, id) ]
    IN  IF ~b.ok THEN Failed(b, f, "ValueError")
        ELSE IF target_column = 0
        THEN FailedNaming(b, f, "Column not found", column_name)
        ELSE IF due_date # NoDate /\ Strptime(due_date) = NoDate
        THEN Failed(b, f, "ValueError")
        ELSE IF ~TextValid(card_text) THEN Failed(b, f, "ValueError")
        ELSE Outcome(b, a,
                     [ ok |-> TRUE, success |-> TRUE, column |-> column_name,
                       total_cards |-> a.total_cards ],
                     write_kanban_board(a))

\* a move that forgets to take a subtask out of its parent
RemoveFromColumnOnly(b, info) ==
    IF info.parent # NoParent THEN b
    ELSE [ b EXCEPT !.columns[info.column].cards = Remove(@, info.card) ]

\* "Remove from source"
RemoveFromSource(b, info) ==
    IF info.parent # NoParent
    THEN [ b EXCEPT !.card[info.parent].subtasks = Remove(@, info.card) ]
    ELSE [ b EXCEPT !.columns[info.column].cards = Remove(@, info.card) ]

move_kanban_card_fs_tool(f, card_text, from_column, to_column, position) ==
    LET b == parse_kanban_structure(f)
        info == find_card_in_board(b, card_text, from_column)
        dest_column == ColumnIndex(b, to_column)
        removed == RemoveFromSource(b, info)
        reset == [ removed EXCEPT !.card[info.card].indent_level = 0 ]
        a == [ reset EXCEPT !.columns[dest_column].cards = Insert(@, position, info.card) ]
    IN  IF ~b.ok THEN Failed(b, f, "ValueError")
        ELSE IF ~info.found THEN FailedNaming(b, f, "Card not found", card_text)
        ELSE IF dest_column = 0
        THEN FailedNaming(b, f, "Destination column not found", to_column)
        ELSE Outcome(b, a,
                     [ ok |-> TRUE, success |-> TRUE,
                       had_subtasks |-> Len(a.card[info.card].subtasks) > 0,
                       \* what the call found and chose, kept to state its effect
                       card |-> info.card, parent |-> info.parent,
                       source_column |-> info.column, dest_column |-> dest_column,
                       position |-> position ],
                     write_kanban_board(a))

toggle_kanban_card_fs_tool(f, card_text, column_name) ==
    LET b == parse_kanban_structure(f)
        info == find_card_in_board(b, card_text, column_name)
        new_status == IF b.card[info.card].status = "incomplete" THEN "completed"
                      ELSE "incomplete"
        a == [ b EXCEPT !.card[info.card].status = new_status ]
    IN  IF ~b.ok THEN Failed(b, f, "ValueError")
        ELSE IF ~info.found THEN FailedNaming(b, f, "Card not found", card_text)
        ELSE Outcome(b, a,
                     [ ok |-> TRUE, success |-> TRUE, new_status |-> new_status,
                       card |-> info.card ],
                     write_kanban_board(a))

\* round(completed / total * 100, 1) if total > 0 else 0, in tenths of a percent
\* (no quotient of two counts this small lies halfway between two tenths)
Round1(completed, total) ==
    IF total > 0 THEN (2000 * completed + total) \div (2 * total) ELSE 0

RECURSIVE count_cards(_, _)
\* get_kanban_statistics_fs_tool.count_cards: total and completed, recursively
count_cards(b, cards) ==
    IF cards = <<>> THEN [ total |-> 0, completed |-> 0 ]
    ELSE LET c == b.card[Head(cards)]
             sub == count_cards(b, c.subtasks)
             rest == count_cards(b, Tail(cards))
         IN  [ total |-> 1 + sub.total + rest.total,
               completed |-> (IF c.status = "completed" THEN 1 ELSE 0)
                             + sub.completed + rest.completed ]

\* sum(1 for c in col.cards if c.status == "completed")
CompletedIn(b, cards) ==
    Cardinality({ i \in DOMAIN cards : b.card[cards[i]].status = "completed" })

ColumnStats(b, col) ==
    LET n == count_cards(b, col.cards)
    IN  [ column_name |-> col.name, total_cards |-> n.total,
          completed_cards |-> n.completed,
          incomplete_cards |-> n.total - n.completed,
          completion_rate |-> Round1(n.completed, n.total) ]

get_kanban_statistics_fs_tool(f) ==
    LET b == parse_kanban_structure(f)
        total_cards == b.total_cards
        total_completed ==
            SumSeq([i \in DOMAIN b.columns |-> CompletedIn(b, b.columns[i].cards)])
    IN  IF ~b.ok THEN Failed(b, f, "ValueError")
        ELSE Outcome(b, NoBoard,
                     [ ok |-> TRUE,
                       total_cards |-> total_cards,
                       total_completed |-> total_completed,
                       total_incomplete |-> total_cards - total_completed,
                       overall_completion_rate |-> Round1(total_completed, total_cards),
                       column_count |-> Len(b.columns),
                       columns |-> [i \in DOMAIN b.columns |-> ColumnStats(b, b.columns[i])] ],
                     f)

(***************************************************************************)
(* Kanban: board files and arguments of the calls                          *)
(***************************************************************************)
\* v @{2025-@{2025-11-01}10-30}
NestedDate == << "v", "sp", "open", "dA1", "open", "dB", "close", "dA2", "close" >>

LineAlphabet ==
    { Heading(2, "Todo"),
      Heading(2, "Done"),
      CardLine(0, " ", << "w" >>),
      CardLine(2, "x", << "v", "sp", "open", "dA", "close" >>),
      CardLine(4, " ", NestedDate) }

\* the line a board file starts with: a column, or a card above every column
FirstLines == { Heading(2, "Todo"), CardLine(0, " ", << "w" >>) }

\* board files of at most n lines, no newline at the end
Files(n) ==
    UNION { { f \in [1..k -> LineAlphabet] : f[1] \in FirstLines } : k \in 1..n }

CardTexts == { << "w" >>, << "v" >> }

ColumnNames == { "Todo", "Done", "Nope" }

Positions == { "start", "end" }

\* status and due_date arguments of add_kanban_card_fs_tool
NewCards ==
    { [ status |-> "incomplete", due_date |-> NoDate ],
      [ status |-> "completed", due_date |-> "dB" ],
      [ status |-> "incomplete", due_date |-> "bad" ] }

(***************************************************************************)
(* Vaults                                                                  *)
(***************************************************************************)
\* A note's text, as the links it holds in order of token number
SortedIdx(n) ==
    { s \in [1..n -> DOMAIN LinkTokens] : \A i \in 1..(n - 1) : s[i] <= s[i + 1] }

Contents(k) ==
    UNION { { [i \in 1..n |-> LinkTokens[s[i]]] : s \in SortedIdx(n) } : n \in 0..k }

Unreadable == [ readable |-> FALSE, content |-> <<>> ]

\* the file that may be unreadable (permission or decode error)
MaybeUnreadable == Str("", "C", TRUE)

FileStates(i, k) ==
    { [readable |-> TRUE, content |-> c] : c \in Contents(k) }
    \cup (IF WalkOrder[i] = MaybeUnreadable THEN { Unreadable } ELSE {})

RECURSIVE Vaults(_, _)
\* the first i files of the walk holding at most k links together
Vaults(i, k) ==
    IF i = 0 THEN { <<>> }
    ELSE UNION { { Append(r, f) : r \in Vaults(i - 1, k - Len(f.content)) } :
                 f \in FileStates(i, k) }

(***************************************************************************)
(* Link tools: one synchronous call at a time; every call rebuilds the     *)
(* graph and computes on it                                                *)
(***************************************************************************)
InitLinks ==
    /\ vault \in Vaults(NumNotes, MaxTotalLinks)
    /\ op = "none"
    /\ graph = EmptyGraph
    /\ orphaned = <<>>
    /\ hubs = <<>>
    /\ min_outlinks = 0
    /\ health = NoHealth
    /\ conn = NoConn
    /\ file = << Blank >> /\ writes = 0
    /\ kop = "none" /\ board = NoBoard /\ after = NoBoard /\ kret = NoRet
    /\ kargs = NoArgs
    /\ calls = NoCalls
    /\ walk = NoWalk

BuildLinkGraph ==
    \E orders \in SetOrders(vault, NumNotes) :
        /\ op = "none"
        /\ op' = "build_link_graph"
        /\ graph' = build_link_graph(vault, orders)
        /\ orphaned' = <<>> /\ hubs' = <<>> /\ min_outlinks' = 0
        /\ health' = NoHealth /\ conn' = NoConn
        /\ UNCHANGED <<vault, kanbanVars, calls, walk>>

FindOrphanedNotes ==
    \E orders \in SetOrders(vault, NumNotes) :
        /\ op = "none"
        /\ op' = "find_orphaned_notes"
        /\ graph' = build_link_graph(vault, orders)
        /\ orphaned' = find_orphaned_notes(graph')
        /\ hubs' = <<>> /\ min_outlinks' = 0
        /\ health' = NoHealth /\ conn' = NoConn
        /\ UNCHANGED <<vault, kanbanVars, calls, walk>>

FindHubNotes ==
    \E orders \in SetOrders(vault, NumNotes), m \in 0..MaxThreshold :
        /\ op = "none"
        /\ op' = "find_hub_notes"
        /\ graph' = build_link_graph(vault, orders)
        /\ min_outlinks' = m
        /\ hubs' = find_hub_notes(graph', m)
        /\ orphaned' = <<>>
        /\ health' = NoHealth /\ conn' = NoConn
        /\ UNCHANGED <<vault, kanbanVars, calls, walk>>

AnalyzeLinkHealth ==
    \E orders \in SetOrders(vault, NumNotes) :
        /\ op = "none"
        /\ op' = "analyze_link_health"
        /\ graph' = build_link_graph(vault, orders)
        /\ health' = analyze_link_health(vault, orders, graph')
        /\ orphaned' = <<>> /\ hubs' = <<>> /\ min_outlinks' = 0
        /\ conn' = NoConn
        /\ UNCHANGED <<vault, kanbanVars, calls, walk>>

GetNoteConnections ==
    \E orders \in SetOrders(vault, NumNotes), note_name \in NoteRefs, depth \in 1..MaxDepth :
        /\ op = "none"
        /\ op' = "get_note_connections"
        /\ graph' = build_link_graph(vault, orders)
        /\ conn' = get_note_connections(graph', note_name, depth)
        /\ orphaned' = <<>> /\ hubs' = <<>> /\ min_outlinks' = 0
        /\ health' = NoHealth
        /\ UNCHANGED <<vault, kanbanVars, calls, walk>>

\* the call returns: its graph and result are dropped, nothing is cached
ReturnLinks ==
    /\ op # "none"
    /\ op' = "none"
    /\ graph' = EmptyGraph
    /\ orphaned' = <<>> /\ hubs' = <<>> /\ min_outlinks' = 0
    /\ health' = NoHealth /\ conn' = NoConn
    /\ UNCHANGED <<vault, kanbanVars, calls, walk>>

NextLinks ==
    \/ ReturnLinks
    \/ BuildLinkGraph
    \/ FindOrphanedNotes
    \/ FindHubNotes
    \/ AnalyzeLinkHealth
    \/ GetNoteConnections

SpecLinks == InitLinks /\ [][NextLinks]_vars

(***************************************************************************)
(* Kanban tools: one synchronous call at a time; every call reads the file *)
(***************************************************************************)
LinksIdle ==
    /\ vault = [i \in 1..NumNotes |-> [readable |-> TRUE, content |-> <<>>]]
    /\ op = "none"
    /\ graph = EmptyGraph
    /\ orphaned = <<>> /\ hubs = <<>> /\ min_outlinks = 0
    /\ health = NoHealth /\ conn = NoConn

InitKanban ==
    /\ file \in Files(MaxLines)
    /\ writes = 0
    /\ kop = "none" /\ board = NoBoard /\ after = NoBoard /\ kret = NoRet
    /\ kargs = NoArgs
    /\ calls = NoCalls
    /\ walk = NoWalk
    /\ LinksIdle

KanbanCall(name, args, out) ==
    /\ kop' = name
    /\ kargs' = args
    /\ board' = out.board
    /\ after' = out.after
    /\ kret' = out.ret
    /\ file' = out.file
    /\ writes' = IF out.after.ok THEN writes + 1 ELSE writes
    /\ UNCHANGED <<linkVars, calls, walk>>

ParseBoard ==
    /\ kop = "none"
    /\ KanbanCall("parse", [ file_path |-> "board.md" ], parse_kanban_board_fs_tool(file))

AddCard ==
    \E column_name \in ColumnNames, new \in NewCards, position \in Positions :
        /\ kop = "none" /\ writes < MaxWrites
        /\ KanbanCall("add",
                      [ column_name |-> column_name, card_text |-> << "w" >>,
                        status |-> new.status, due_date |-> new.due_date,
                        position |-> position ],
                      add_kanban_card_fs_tool(file, column_name, << "w" >>,
                                              new.status, new.due_date, position))

MoveCard ==
    \E card_text \in CardTexts, from_column \in { "Todo", "Done" },
       to_column \in ColumnNames, position \in Positions :
        /\ kop = "none" /\ writes < MaxWrites
        /\ KanbanCall("move",
                      [ card_text |-> card_text, from_column |-> from_column,
                        to_column |-> to_column, position |-> position ],
                      move_kanban_card_fs_tool(file, card_text, from_column,
                                               to_column, position))

ToggleCard ==
    \E card_text \in CardTexts, column_name \in { "None", "Done" } :
        /\ kop = "none" /\ writes < MaxWrites
        /\ KanbanCall("toggle",
                      [ card_text |-> card_text, column_name |-> column_name ],
                      toggle_kanban_card_fs_tool(file, card_text, column_name))

GetStatistics ==
    /\ kop = "none"
    /\ KanbanCall("statistics", [ file_path |-> "board.md" ],
                  get_kanban_statistics_fs_tool(file))

\* the call returns: its board objects are dropped, the file stays
ReturnKanban ==
    /\ kop # "none"
    /\ kop' = "none"
    /\ board' = NoBoard /\ after' = NoBoard /\ kret' = NoRet
    /\ kargs' = NoArgs
    /\ UNCHANGED <<file, writes, linkVars, calls, walk>>

NextKanban ==
    \/ ReturnKanban
    \/ ParseBoard
    \/ AddCard
    \/ MoveCard
    \/ ToggleCard
    \/ GetStatistics

SpecKanban == InitKanban /\ [][NextKanban]_vars

(***************************************************************************)
(* Properties of the link graph and its analytics                          *)
(***************************************************************************)
Outlinks(g, a) == Range(g.node[a].outlinks)

Inlinks(g, a) == Range(g.node[a].inlinks)

KeyIndex(g, p) == CHOOSE i \in DOMAIN g.keys : g.keys[i] = p

Occurrences(s, x) == Cardinality({ i \in DOMAIN s : s[i] = x })

\* C1: graph symmetry: in the graph a link tool built, whenever node B is in
\* the outlinks of node A, A is in the inlinks of B.
C1_GraphSymmetry ==
    op # "none" =>
        \A a \in Keys(graph), b \in Keys(graph) :
            b \in Outlinks(graph, a) => a \in Inlinks(graph, b)

C1_Witness ==
    /\ op = "build_link_graph"
    /\ \E a \in Keys(graph), b \in Keys(graph) : a # b /\ b \in Outlinks(graph, a)

ResolvedTargets(i) ==
    { ResolveLink(t) : t \in all_links_set(vault[i].content) } \ { None }

NoteIndex(p) == CHOOSE i \in 1..NumNotes : WalkOrder[i] = p

\* C3: find_hub_notes(m) returns exactly the nodes with at least m distinct
\* outlinks, each with that count, by descending count, equal counts in the
\* order of the graph's keys.
C3_HubsExactAndOrdered ==
    op = "find_hub_notes" =>
        /\ \A k \in Keys(graph) :
               Occurrences([i \in DOMAIN hubs |-> hubs[i].file_path], k)
                   = (IF Cardinality(Outlinks(graph, k)) >= min_outlinks THEN 1 ELSE 0)
        /\ \A i \in DOMAIN hubs :
               /\ hubs[i].file_path \in Keys(graph)
               /\ hubs[i].outlink_count = Cardinality(Outlinks(graph, hubs[i].file_path))
               /\ hubs[i].outlink_count
                      = (IF vault[NoteIndex(hubs[i].file_path)].readable
                         THEN Cardinality(ResolvedTargets(NoteIndex(hubs[i].file_path)))
                         ELSE 0)
        /\ \A i, j \in DOMAIN hubs :
               i < j =>
                   \/ hubs[i].outlink_count > hubs[j].outlink_count
                   \/ /\ hubs[i].outlink_count = hubs[j].outlink_count
                      /\ KeyIndex(graph, hubs[i].file_path) < KeyIndex(graph, hubs[j].file_path)

C3_Witness ==
    /\ op = "find_hub_notes"
    /\ \E i, j \in DOMAIN hubs :
           /\ i < j
           /\ hubs[i].outlink_count > hubs[j].outlink_count
           /\ KeyIndex(graph, hubs[i].file_path) > KeyIndex(graph, hubs[j].file_path)
    /\ \E k \in Keys(graph) : Cardinality(Outlinks(graph, k)) < min_outlinks

\* a reference names a file: by its stem alone, or by its path
NamesFile(t, p) ==
    \/ t.dir = "" /\ t.stem = p.stem
    \/ t.dir = p.dir /\ t.stem = p.stem

\* C4: broken-link independence: for every readable note S and every target T
\* extracted from S that names no markdown file of the vault, analyze_link_health
\* counts (S, T) as a broken link, while the graph has no node for T.
C4_BrokenLinksCounted ==
    op = "analyze_link_health" =>
        /\ health.broken_links_count = Len(health.broken_links)
        /\ \A i \in 1..NumNotes :
               vault[i].readable =>
                   \A t \in all_links_set(vault[i].content) :
                       (\A j \in 1..NumNotes : ~NamesFile(t, WalkOrder[j])) =>
                           /\ Occurrences(health.broken_links,
                                  [source_file |-> WalkOrder[i], target |-> t]) = 1
                           /\ \A k \in Keys(graph) : ~NamesFile(t, k)

C4_Witness ==
    /\ op = "analyze_link_health"
    /\ health.broken_links_count >= 1
    /\ \E i \in 1..NumNotes :
           /\ vault[i].readable
           /\ \E t \in all_links_set(vault[i].content) :
                  /\ \A j \in 1..NumNotes : ~NamesFile(t, WalkOrder[j])
                  /\ Outlinks(graph, WalkOrder[i]) # {}

RECURSIVE WalkEnds(_, _, _)
\* the nodes at the end of a walk of exactly k outlink edges from a node of S
WalkEnds(g, S, k) ==
    IF k = 0 THEN S
    ELSE WalkEnds(g, UNION { Outlinks(g, a) : a \in S \cap Keys(g) }, k - 1)

ReachedWithin(g, a, d) == UNION { WalkEnds(g, {a}, k) : k \in 1..d }

\* C5: neighborhood depth bound: every note of the connections map has a
\* recorded depth k with 1 <= k <= d and ends a walk of k outlink edges from
\* the start note; a note that only walks of more than d edges reach is absent.
C5_DepthBound ==
    (op = "get_note_connections" /\ conn.status = "ok") =>
        \A p \in DOMAIN conn.connections :
            LET k == conn.connections[p].depth
            IN  /\ 1 <= k /\ k <= conn.depth
                /\ p \in WalkEnds(graph, {conn.note}, k)
                /\ p \in ReachedWithin(graph, conn.note, conn.depth)

C5_Witness ==
    /\ op = "get_note_connections" /\ conn.status = "ok"
    /\ conn.depth = 2
    /\ \E p, q \in DOMAIN conn.connections :
           conn.connections[p].depth = 1 /\ conn.connections[q].depth = 2
    /\ \E r \in Keys(graph) :
           /\ r \in WalkEnds(graph, {conn.note}, 3)
           /\ r \notin DOMAIN conn.connections

(***************************************************************************)
(* Properties of Kanban boards                                             *)
(***************************************************************************)
Cards(b) == { id \in DOMAIN b.card : b.card[id] # NoCard }

Roots(b) == UNION { Range(b.columns[i].cards) : i \in DOMAIN b.columns }

\* number of places card id has in the root lists of the columns
PlacesInColumns(b, id) ==
    SumSeq([i \in DOMAIN b.columns |-> Occurrences(b.columns[i].cards, id)])

\* number of places card id has in the subtasks lists of the cards
PlacesInCards(b, id) ==
    SumSeq([p \in DOMAIN b.card |->
               IF b.card[p] = NoCard THEN 0 ELSE Occurrences(b.card[p].subtasks, id)])

RECURSIVE Below(_, _, _)
\* the cards of S and those at most n subtasks links below them
Below(b, S, n) ==
    IF n = 0 THEN S
    ELSE Below(b, S \cup UNION { Range(b.card[p].subtasks) : p \in S }, n - 1)

RECURSIVE Flatten(_, _, _)
\* the forest under a list of cards, depth first, each card with its depth
Flatten(b, cards, depth) ==
    IF cards = <<>> THEN <<>>
    ELSE LET c == b.card[Head(cards)]
         IN  << [ depth |-> depth, text |-> c.text, status |-> c.status,
                  due_date |-> c.due_date ] >>
             \o Flatten(b, c.subtasks, depth + 1)
             \o Flatten(b, Tail(cards), depth)

Parsed == kop # "none" /\ board.ok

\* C6: in every board parse_kanban_structure produced, each card in a card's
\* subtasks has an indent_level strictly greater than that card's, and every
\* parsed card has exactly one place, in one column's root list or in one
\* card's subtasks, and is reached from the root lists: the cards form a forest
\* rooted at the columns, no card shared, no cycle.
C6_ParsedForest ==
    Parsed =>
        /\ \A p \in Cards(board) : \A k \in Range(board.card[p].subtasks) :
               /\ k \in Cards(board)
               /\ board.card[k].indent_level > board.card[p].indent_level
        /\ \A id \in Cards(board) :
               PlacesInColumns(board, id) + PlacesInCards(board, id) = 1
        /\ Below(board, Roots(board), Len(board.card)) = Cards(board)

\* a parsed column where an indented card without a parent became a root card
\* next to a root card that has subtasks
C6_Witness ==
    /\ kop = "parse" /\ board.ok
    /\ \E i \in DOMAIN board.columns :
           \E j \in 1..(Len(board.columns[i].cards) - 1) :
               /\ board.card[board.columns[i].cards[j]].subtasks # <<>>
               /\ board.card[board.columns[i].cards[j + 1]].indent_level > 0

\* C7: for every board b that parse_kanban_structure produced, parsing the text
\* write_kanban_board writes for b gives a board with the same columns in the
\* same order and the same card forest, with the same text, status and
\* due_date on every card, and writing that board gives the same text again.
C7_RoundTripLossless ==
    (kop = "parse" /\ board.ok) =>
        LET text == write_kanban_board(board)
            again == parse_kanban_structure(text)
        IN  /\ again.ok
            /\ Len(again.columns) = Len(board.columns)
            /\ \A i \in DOMAIN board.columns :
                   /\ again.columns[i].name = board.columns[i].name
                   /\ Flatten(again, again.columns[i].cards, 0)
                          = Flatten(board, board.columns[i].cards, 0)
            /\ write_kanban_board(again) = text

Moved == kop = "move" /\ kret.ok

\* what C8 states of a move in every case
MoveLands ==
    LET c == kret.card
        dest == after.columns[kret.dest_column].cards
    IN  /\ dest # <<>>
        /\ dest[IF kret.position = "start" THEN 1 ELSE Len(dest)] = c
        /\ after.card[c].indent_level = 0
        /\ kret.parent # NoParent => ~InSeq(c, after.card[kret.parent].subtasks)
        /\ after.card[c].subtasks = board.card[c].subtasks
        /\ \A k \in Range(after.card[c].subtasks) : after.card[k] = board.card[k]

\* C8 as stated: after move_kanban_card of a card found in from_column to an
\* existing to_column, the card is a root card of the destination column (first
\* for 'start', last for 'end') with indent_level 0, it is no longer in its
\* previous column's root list or its previous parent's subtasks, and its own
\* subtasks are unchanged and still attached to it.
C8_MoveResetsNesting ==
    Moved =>
        /\ MoveLands
        /\ ~InSeq(kret.card, after.columns[kret.source_column].cards)

\* C8, amended: after move_kanban_card of a card found in from_column to an
\* existing to_column, the card is a root card of the destination column (first
\* for 'start', last for 'end') with indent_level 0, it is no longer in its
\* previous parent's subtasks, it is in its previous column's root list only
\* when that column is the destination, it has exactly one place on the board,
\* and its own subtasks are unchanged and still attached to it.
C8_MoveResetsNestingAmended ==
    Moved =>
        /\ MoveLands
        /\ kret.source_column # kret.dest_column
               => ~InSeq(kret.card, after.columns[kret.source_column].cards)
        /\ PlacesInColumns(after, kret.card) + PlacesInCards(after, kret.card) = 1

\* an indented card with subtasks moved to another column
C8_Witness ==
    /\ Moved
    /\ kret.had_subtasks
    /\ kret.source_column # kret.dest_column
    /\ board.card[kret.card].indent_level > 0

\* a subtask moved to the top of another column
C8_WitnessSubtask ==
    /\ Moved
    /\ kret.parent # NoParent
    /\ kret.source_column # kret.dest_column
    /\ kret.position = "start"

\* C9: for every board parse_kanban_board returns, total_cards is the number of
\* cards at all nesting levels, root cards and subtasks, over all columns.
C9_TotalCardsRecursive ==
    (kop = "parse" /\ kret.ok) =>
        kret.total_cards
            = SumSeq([i \in DOMAIN board.columns |->
                         Len(Flatten(board, board.columns[i].cards, 0))])

\* C10: for every column of the board parse_kanban_board returns, card_count is
\* the number of root cards in the column's cards list when the board is
\* returned, subtasks not counted.
C10_CardCountRoots ==
    (kop = "parse" /\ kret.ok) =>
        \A i \in DOMAIN kret.columns :
            kret.columns[i].card_count = Len(kret.columns[i].cards)

(***************************************************************************)
(* Properties of the neighborhood, the graph keys and the link counters    *)
(***************************************************************************)
\* C11: the start note of get_note_connections is never a key of the
\* connections map it returns, whatever the graph (also when an outlink path
\* leads back to the start note, or the start note links to itself) and
\* whatever the depth.
C11_StartNotInConnections ==
    (op = "get_note_connections" /\ conn.status = "ok") =>
        conn.note \notin DOMAIN conn.connections

\* C12: a markdown file that cannot be opened or decoded while the graph is
\* built is no key of the graph and is in no node's outlinks or inlinks, even
\* when readable notes hold links that name it.
C12_UnreadableExcluded ==
    op # "none" =>
        \A i \in 1..NumNotes :
            ~vault[i].readable =>
                /\ WalkOrder[i] \notin Keys(graph)
                /\ \A k \in Keys(graph) :
                       /\ WalkOrder[i] \notin Outlinks(graph, k)
                       /\ WalkOrder[i] \notin Inlinks(graph, k)

\* the markdown files that exist in the vault outside the metadata directory
ExistingNotes == { RglobOrder[i] : i \in { j \in DOMAIN RglobOrder : ~InObsidian(RglobOrder[j]) } }

\* the links of readable notes that resolve to no file
UnresolvedLinks ==
    UNION { { l \in all_links_set(vault[i].content) : ResolveLink(l) = None } :
            i \in { j \in 1..NumNotes : vault[j].readable } }

\* C13: no placeholder nodes: every key of the graph build_link_graph returns
\* is the path of an existing markdown file outside the metadata directory,
\* every path in an outlinks or inlinks list is a key of the graph, and a link
\* whose target resolves to no file adds neither a node nor an edge.
C13_NoPlaceholderNodes ==
    op # "none" =>
        /\ Keys(graph) \subseteq ExistingNotes
        /\ \A k \in Keys(graph) :
               Outlinks(graph, k) \cup Inlinks(graph, k) \subseteq Keys(graph)
        /\ \A l \in UnresolvedLinks : \A k \in Keys(graph) :
               /\ { l, WithMd(l), MetadataFile } \cap (Outlinks(graph, k) \cup Inlinks(graph, k)) = {}
               /\ k \notin { l, WithMd(l), MetadataFile }

\* a graph built from a vault where a note holds a link to no file next to a
\* link that resolves
C13_Witness ==
    /\ op = "build_link_graph"
    /\ \E i \in 1..NumNotes :
           /\ vault[i].readable
           /\ \E l \in all_links_set(vault[i].content) : ResolveLink(l) = None
           /\ graph.node[WalkOrder[i]].outlinks # <<>>

(***************************************************************************)
(* Board files with headings of level 2 and of level 3                     *)
(***************************************************************************)
HeadingLines ==
    { Heading(2, "Todo"),
      Heading(3, "Done"),
      CardLine(0, " ", << "w" >>),
      CardLine(2, "x", << "v", "sp", "open", "dA", "close" >>) }

InitHeadings ==
    /\ file \in UNION { [1..k -> HeadingLines] : k \in 1..MaxLines }
    /\ writes = 0
    /\ kop = "none" /\ board = NoBoard /\ after = NoBoard /\ kret = NoRet
    /\ kargs = NoArgs
    /\ calls = NoCalls
    /\ walk = NoWalk
    /\ LinksIdle

SpecHeadings == InitHeadings /\ [][NextKanban]_vars

\* the heading line above line j, 0 when there is none
HeadingAbove(lines, j) ==
    IF \E i \in 1..(j - 1) : lines[i].kind = "heading"
    THEN CHOOSE i \in 1..(j - 1) :
             /\ lines[i].kind = "heading"
             /\ \A k \in (i + 1)..(j - 1) : lines[k].kind # "heading"
    ELSE 0

\* the column parsed from the heading at line i has the card of line j in it
ColumnOfLineHolds(b, lines, i, j) ==
    \E c \in DOMAIN b.columns :
        /\ b.columns[c].line_number = i
        /\ b.columns[c].name = lines[i].name
        /\ j \in Below(b, Range(b.columns[c].cards), Len(b.card))

\* C14: in parse_kanban_structure a heading line of level 3 starts a column as
\* a heading line of level 2 does: every heading line of level 2 or 3 opens a
\* column of its name (closing the one open before), and the checkbox lines
\* that follow it up to the next heading are the cards of that column.
C14_Level3StartsColumn ==
    (kop = "parse" /\ board.ok) =>
        LET lines == SplitLines(file)
        IN  /\ \A i \in DOMAIN lines :
                   lines[i].kind = "heading" =>
                       \E c \in DOMAIN board.columns :
                           /\ board.columns[c].line_number = i
                           /\ board.columns[c].name = lines[i].name
            /\ \A j \in DOMAIN lines :
                   (lines[j].kind = "card" /\ HeadingAbove(lines, j) > 0) =>
                       ColumnOfLineHolds(board, lines, HeadingAbove(lines, j), j)

(***************************************************************************)
(* Vaults whose first note holds links of every syntax                     *)
(*   [[B]]   [text](C.md)   ![[A]]   [text](https://e.com)                 *)
(***************************************************************************)
KindTokens ==
    { [kind |-> "wikilink", target |-> Str("", "B", FALSE)],
      [kind |-> "markdown", target |-> Str("", "C", TRUE)],
      [kind |-> "embed", target |-> Str("", "A", FALSE)],
      [kind |-> "external", target |-> Str("https:", "e.com", FALSE)] }

KindVaults(k) ==
    { [i \in 1..NumNotes |->
          [readable |-> TRUE, content |-> IF i = 1 THEN c ELSE <<>>]] :
      c \in UNION { [1..n -> KindTokens] : n \in 0..k } }

InitLinkKinds ==
    /\ vault \in KindVaults(MaxTotalLinks)
    /\ op = "none"
    /\ graph = EmptyGraph
    /\ orphaned = <<>> /\ hubs = <<>> /\ min_outlinks = 0
    /\ health = NoHealth /\ conn = NoConn
    /\ file = << Blank >> /\ writes = 0
    /\ kop = "none" /\ board = NoBoard /\ after = NoBoard /\ kret = NoRet
    /\ kargs = NoArgs
    /\ calls = NoCalls
    /\ walk = NoWalk

SpecLinkKinds == InitLinkKinds /\ [][NextLinks]_vars

\* number of links of one syntax in a note's text
CountKind(content, kind) == Cardinality({ i \in DOMAIN content : content[i].kind = kind })

\* C15: for every note, the link_types counters of its node are the numbers of
\* links of each syntax in its text: wikilinks counts the [[...]] links that
\* are no embeds, markdown_links the relative [text](url) links, embeds the
\* ![[...]] links; an embed is counted under embeds only.
C15_LinkTypesBySyntax ==
    op # "none" =>
        \A i \in 1..NumNotes :
            vault[i].readable =>
                graph.node[WalkOrder[i]].link_types
                    = [ wikilinks |-> CountKind(vault[i].content, "wikilink"),
                        markdown_links |-> CountKind(vault[i].content, "markdown"),
                        embeds |-> CountKind(vault[i].content, "embed") ]

(***************************************************************************)
(* Properties of the Kanban tools                                          *)
(***************************************************************************)
ColumnMissing(b, name) == \A i \in DOMAIN b.columns : b.columns[i].name # name

\* an add whose column_name is no column of the board it parsed
AddToMissingColumn ==
    kop = "add" /\ board.ok /\ ColumnMissing(board, kargs.column_name)

\* a move of a card that is in from_column to a to_column that is no column
MoveToMissingColumn ==
    /\ kop = "move" /\ board.ok
    /\ find_card_in_board(board, kargs.card_text, kargs.from_column).found
    /\ ColumnMissing(board, kargs.to_column)

\* the call raised the error and built no board to write
FailedNamingColumn(error, name) ==
    /\ ~kret.ok /\ kret.error = error /\ kret.name = name
    /\ ~after.ok

Resolves(note_name) == \E p \in ExistingNotes : NamesFile(note_name, p)

\* C17: get_note_connections fails with the not-found error whenever the
\* reference resolves to no markdown file of the vault, for every depth, and
\* then returns nothing of a result; when the reference resolves it does not
\* fail with not-found.
C17_NotFoundExactly ==
    op = "get_note_connections" =>
        /\ ~Resolves(conn.note_name) =>
               /\ conn.status = "not_found"
               /\ DOMAIN conn = { "status", "note_name", "depth" }
        /\ Resolves(conn.note_name) => conn.status = "ok"

\* the call failed for the largest depth on a vault that has links
C17_Witness ==
    /\ op = "get_note_connections"
    /\ conn.status = "not_found"
    /\ conn.depth = MaxDepth
    /\ \E k \in Keys(graph) : graph.node[k].outlinks # <<>>

(***************************************************************************)
(* Concurrent mutating Kanban calls: a call reads the file in one step     *)
(* (full_path.read_text) and parses, changes and writes in a later one     *)
(* (write_kanban_board); nothing is held between the two                   *)
(***************************************************************************)
Requests ==
    { [ tool |-> "add", column_name |-> "Todo", card_text |-> << "w" >>,
        status |-> "incomplete", due_date |-> NoDate, position |-> "end" ],
      [ tool |-> "add", column_name |-> "Todo", card_text |-> << "v" >>,
        status |-> "completed", due_date |-> "dB", position |-> "start" ],
      [ tool |-> "toggle", card_text |-> << "w" >>, column_name |-> "None" ],
      [ tool |-> "move", card_text |-> << "w" >>, from_column |-> "Todo",
        to_column |-> "Done", position |-> "end" ] }

\* what a call with this request does to the content it read
RunTool(req, content) ==
    IF req.tool = "add"
    THEN add_kanban_card_fs_tool(content, req.column_name, req.card_text, req.status,
                                 req.due_date, req.position)
    ELSE IF req.tool = "move"
    THEN move_kanban_card_fs_tool(content, req.card_text, req.from_column,
                                  req.to_column, req.position)
    ELSE toggle_kanban_card_fs_tool(content, req.card_text, req.column_name)

\* an optimistic version check: write only over the content that was read
MayWriteIfUnchanged(content, current) == content = current

\* a lock or a version check would stand here: write_kanban_board writes
\* whatever the file holds by now
MayWrite(content, current) == TRUE

RaceLines ==
    { Heading(2, "Todo"), Heading(2, "Done"),
      CardLine(0, " ", << "w" >>), CardLine(2, "x", << "v" >>) }

RaceFiles(n) ==
    UNION { { f \in [1..k -> RaceLines] : f[1] = Heading(2, "Todo") } : k \in 1..n }

InitRace ==
    /\ file \in RaceFiles(MaxLines)
    /\ writes = 0
    /\ calls = NoCalls
    /\ walk = NoWalk
    /\ kop = "none" /\ board = NoBoard /\ after = NoBoard /\ kret = NoRet
    /\ kargs = NoArgs
    /\ LinksIdle

\* content = full_path.read_text(encoding="utf-8")
ReadFile(p) ==
    \E req \in Requests :
        /\ calls[p].pc = "idle"
        /\ calls' = [ calls EXCEPT ![p] =
              [ pc |-> "read", req |-> req, content |-> file, read_at |-> writes ] ]
        /\ UNCHANGED <<file, writes, kop, board, after, kret, kargs, linkVars, walk>>

\* parse_kanban_structure(content), the change, write_kanban_board(board)
WriteBack(p) ==
    LET out == RunTool(calls[p].req, calls[p].content)
        wrote == out.after.ok /\ MayWrite(calls[p].content, file)
    IN  /\ calls[p].pc = "read"
        /\ file' = IF wrote THEN out.file ELSE file
        /\ writes' = IF wrote THEN writes + 1 ELSE writes
        /\ calls' = [ calls EXCEPT ![p] =
              [ pc |-> "done", req |-> calls[p].req, content |-> calls[p].content,
                read_at |-> calls[p].read_at, wrote |-> wrote, ok |-> out.ret.ok,
                wrote_as |-> IF wrote THEN writes + 1 ELSE 0 ] ]
        /\ UNCHANGED <<kop, board, after, kret, kargs, linkVars, walk>>

NextRace == \E p \in Callers : ReadFile(p) \/ WriteBack(p)

SpecRace == InitRace /\ [][NextRace]_vars

Finished(p) == calls[p].pc = "done"

BothWrote == \A p \in Callers : Finished(p) /\ calls[p].wrote

\* both calls read the file before either wrote it
Raced == \A p \in Callers : calls[p].read_at = 0

FirstWriter == CHOOSE p \in Callers : calls[p].wrote_as = 1

LastWriter == CHOOSE p \in Callers : calls[p].wrote_as = 2

BothAdd == \A p \in Callers : calls[p].req.tool = "add"

NumCards(f) == Cardinality(Cards(parse_kanban_structure(f)))

\* C18: concurrent Kanban writers race, the last write wins: no lock and no
\* version check keeps a mutating call from writing; when two mutating calls
\* on the same board file both read the file before either writes, the file
\* after both is the second writer's serialization of the content read at the
\* start, the first writer's change is lost (of two added cards one is there);
\* when one call runs after the other both changes are in the file (both
\* added cards are there).
C18_LastWriteWins ==
    /\ \A p \in Callers :
           (Finished(p) /\ RunTool(calls[p].req, calls[p].content).after.ok)
               => calls[p].wrote
    /\ (BothWrote /\ Raced) =>
           LET original == calls[FirstWriter].content
           IN  /\ calls[LastWriter].content = original
               /\ file = RunTool(calls[LastWriter].req, original).file
               /\ BothAdd => NumCards(file) = NumCards(original) + 1
    /\ (BothWrote /\ ~Raced) =>
           LET original == calls[FirstWriter].content
               between == RunTool(calls[FirstWriter].req, original).file
           IN  /\ calls[LastWriter].content = between
               /\ file = RunTool(calls[LastWriter].req, between).file
               /\ BothAdd => NumCards(file) = NumCards(original) + 2

\* an add and a toggle raced, the toggle wrote last and the added card is gone
C18_Witness ==
    /\ BothWrote /\ Raced
    /\ calls["p"].req.tool = "add" /\ calls["p"].wrote_as = 1
    /\ calls["q"].req.tool = "toggle"
    /\ NumCards(file) = NumCards(calls["p"].content)

RECURSIVE FlattenIds(_, _)
\* the cards under a list of cards, depth first
FlattenIds(b, cards) ==
    IF cards = <<>> THEN <<>>
    ELSE << Head(cards) >> \o FlattenIds(b, b.card[Head(cards)].subtasks)
         \o FlattenIds(b, Tail(cards))

RECURSIVE SearchedIds(_, _, _)
\* the cards of the columns a search looks at (all, or those of the given
\* name), column after column, depth first
SearchedIds(b, column_name, i) ==
    IF i > Len(b.columns) THEN <<>>
    ELSE (IF column_name = "None" \/ b.columns[i].name = column_name
          THEN FlattenIds(b, b.columns[i].cards) ELSE <<>>)
         \o SearchedIds(b, column_name, i + 1)

\* positions of the cards with this text in a list of cards
Matches(b, ids, card_text) == { k \in DOMAIN ids : b.card[ids[k]].text = card_text }

Flipped(status) == IF status = "incomplete" THEN "completed" ELSE "incomplete"

\* C19: toggle_kanban_card flips the status of exactly one card, the first in
\* depth-first order whose text equals card_text (within column_name when one
\* is given), from incomplete to completed or back, reports the new status,
\* and leaves every other card's status and every card's text, due date,
\* column, parent and place among its siblings unchanged in the board it writes.
C19_ToggleFlipsOne ==
    (kop = "toggle" /\ board.ok) =>
        LET ids == SearchedIds(board, kargs.column_name, 1)
            hits == Matches(board, ids, kargs.card_text)
        IN  hits # {} =>
                LET c == ids[CHOOSE k \in hits : \A j \in hits : k <= j]
                IN  /\ kret.ok
                    /\ kret.card = c
                    /\ kret.new_status = Flipped(board.card[c].status)
                    /\ after = [ board EXCEPT !.card[c].status = kret.new_status ]
                    /\ file = write_kanban_board(after)

\* a toggle narrowed to a column, where an earlier column holds a card of the
\* same text
C19_Witness ==
    /\ kop = "toggle" /\ kret.ok
    /\ kargs.column_name # "None"
    /\ Cardinality(Matches(board, SearchedIds(board, "None", 1), kargs.card_text))
         > Cardinality(Matches(board, SearchedIds(board, kargs.column_name, 1), kargs.card_text))

CompletedCards(b) == { id \in Cards(b) : b.card[id].status = "completed" }

\* C20: get_kanban_statistics reports total_cards equal to the number of cards
\* on the board, total_completed equal to the number of completed cards,
\* total_incomplete = total_cards - total_completed, never negative, and
\* overall_completion_rate = total_completed / total_cards * 100 (in tenths of
\* a percent here).
C20_StatisticsTotals ==
    (kop = "statistics" /\ kret.ok) =>
        /\ kret.total_cards = Cardinality(Cards(board))
        /\ kret.total_completed = Cardinality(CompletedCards(board))
        /\ kret.total_incomplete = kret.total_cards - kret.total_completed
        /\ kret.total_incomplete >= 0
        /\ kret.overall_completion_rate
               = Round1(Cardinality(CompletedCards(board)), Cardinality(Cards(board)))

Added == kop = "add" /\ kret.ok

\* C21: add_kanban_card on an existing column adds exactly one new root-level
\* card with the given text, status and due date to that column, first among
\* its root cards for 'start' and last for 'end', and every card present
\* before keeps its column, its parent and its order in the board it writes.
C21_AddOneRootCard ==
    /\ (kop = "add" /\ board.ok /\ ColumnIndex(board, kargs.column_name) # 0
            /\ kargs.due_date # "bad")
           => kret.ok
    /\ Added =>
        LET t == CHOOSE i \in DOMAIN board.columns :
                     /\ board.columns[i].name = kargs.column_name
                     /\ \A j \in 1..(i - 1) : board.columns[j].name # kargs.column_name
            new == Cards(after) \ Cards(board)
            roots == after.columns[t].cards
        IN  /\ Cardinality(new) = 1
            /\ \A c \in new :
                   /\ after.card[c].text = kargs.card_text
                   /\ after.card[c].status = kargs.status
                   /\ after.card[c].due_date = kargs.due_date
                   /\ after.card[c].subtasks = <<>>
                   /\ after.card[c].indent_level = 0
                   /\ PlacesInColumns(after, c) = 1 /\ PlacesInCards(after, c) = 0
                   /\ roots[IF kargs.position = "start" THEN 1 ELSE Len(roots)] = c
                   /\ Remove(roots, c) = board.columns[t].cards
            /\ \A i \in DOMAIN board.columns \ { t } : after.columns[i] = board.columns[i]
            /\ Len(after.columns) = Len(board.columns)
            /\ after.columns[t].name = board.columns[t].name
            /\ \A id \in Cards(board) : after.card[id] = board.card[id]
            /\ file = write_kanban_board(after)

\* a completed card with a due date put in front of the root cards of a
\* column that has a card with subtasks
C21_Witness ==
    /\ Added
    /\ kargs.position = "start" /\ kargs.status = "completed" /\ kargs.due_date # NoDate
    /\ \E i \in DOMAIN board.columns :
           /\ board.columns[i].name = kargs.column_name
           /\ \E k \in Range(board.columns[i].cards) : board.card[k].subtasks # <<>>

(***************************************************************************)
(* Vaults whose first note links to B.md and to sub/A.md by stem and by    *)
(* path, with and without the extension                                    *)
(*   [[B]]   [[B.md]]   [[sub/A]]   [[sub/A.md]]                           *)
(***************************************************************************)
FormTokens ==
    { [kind |-> "wikilink", target |-> Str("", "B", FALSE)],
      [kind |-> "wikilink", target |-> Str("", "B", TRUE)],
      [kind |-> "wikilink", target |-> Str("sub", "A", FALSE)],
      [kind |-> "wikilink", target |-> Str("sub", "A", TRUE)] }

FormVaults(k) ==
    { [i \in 1..NumNotes |->
          [readable |-> TRUE, content |-> IF i = 1 THEN c ELSE <<>>]] :
      c \in UNION { [1..n -> FormTokens] : n \in 0..k } }

InitLinkForms ==
    /\ vault \in FormVaults(MaxTotalLinks)
    /\ op = "none"
    /\ graph = EmptyGraph
    /\ orphaned = <<>> /\ hubs = <<>> /\ min_outlinks = 0
    /\ health = NoHealth /\ conn = NoConn
    /\ file = << Blank >> /\ writes = 0
    /\ kop = "none" /\ board = NoBoard /\ after = NoBoard /\ kret = NoRet
    /\ kargs = NoArgs
    /\ calls = NoCalls
    /\ walk = NoWalk

SpecLinkForms == InitLinkForms /\ [][NextLinks]_vars

\* the four ways to write a note: stem and vault-relative path, each with and
\* without '.md'
FormsOf(p) == { FileStem(p), WithMd(FileStem(p)), ReplaceMd(p), p }

\* C22: a link target that is a note's filename stem or its vault-relative
\* path, with or without the '.md' extension, produces the edge from the
\* linking note to that note's canonical path.
C22_FourFormsResolve ==
    op # "none" =>
        \A i \in 1..NumNotes : \A link \in all_links_set(vault[i].content) :
            \A n \in 1..NumNotes :
                link \in FormsOf(WalkOrder[n]) =>
                    /\ InSeq(WalkOrder[n], graph.node[WalkOrder[i]].outlinks)
                    /\ InSeq(WalkOrder[i], graph.node[WalkOrder[n]].inlinks)

(***************************************************************************)
(* The nesting rule, read off the lines of the file                        *)
(***************************************************************************)
\* the line of the column heading a line stands under, 0 before the first
ColumnLine(lines, l) ==
    LET above == { h \in 1..(l - 1) : StartsColumn(lines[h]) }
    IN  IF above = {} THEN 0 ELSE CHOOSE h \in above : \A g \in above : g <= h

\* a checkbox line under an open column
CardUnderColumn(lines, l) == CardMatch(lines[l]) /\ ColumnLine(lines, l) # 0

\* the most recent preceding card of the column with a smaller indent level,
\* 0 when there is none
OpenParent(lines, l) ==
    LET k == lines[l].indent \div 2
        lower == { p \in (ColumnLine(lines, l) + 1)..(l - 1) :
                     CardMatch(lines[p]) /\ lines[p].indent \div 2 < k }
    IN  IF lower = {} THEN 0 ELSE CHOOSE p \in lower : \A q \in lower : q <= p

ColumnNumber(lines, l) == Cardinality({ h \in 1..l : StartsColumn(lines[h]) })

Increasing(s) == \A i \in 1..(Len(s) - 1) : s[i] < s[i + 1]

\* C23: nesting rule of the parser: a checkbox line under an open column gets
\* indent level k = (length of its leading whitespace) div 2; it becomes a
\* subtask of the most recent preceding card of that column with an indent
\* level below k (what is left on top of the stack after popping the entries
\* with indent >= k), and a root card of the current column when there is
\* none; a card with k = 0 is always a root card, a column heading empties the
\* stack, and cards keep the order of their lines.
C23_NestingRule ==
    (kop \in { "parse", "statistics" } /\ board.ok) =>
        LET lines == SplitLines(file)
        IN  /\ Len(board.card) = Len(lines)
            /\ \A l \in DOMAIN lines :
                   IF ~CardUnderColumn(lines, l) THEN board.card[l] = NoCard
                   ELSE /\ board.card[l] # NoCard
                        /\ board.card[l].indent_level = lines[l].indent \div 2
                        /\ IF OpenParent(lines, l) = 0
                           THEN /\ InSeq(l, board.columns[ColumnNumber(lines, l)].cards)
                                /\ PlacesInColumns(board, l) = 1
                                /\ PlacesInCards(board, l) = 0
                           ELSE /\ InSeq(l, board.card[OpenParent(lines, l)].subtasks)
                                /\ PlacesInCards(board, l) = 1
                                /\ PlacesInColumns(board, l) = 0
            /\ \A i \in DOMAIN board.columns : Increasing(board.columns[i].cards)
            /\ \A l \in Cards(board) : Increasing(board.card[l].subtasks)

\* a card two levels deep hangs under a card one level deep, which hangs under
\* a root card of indent level 0
C23_Witness ==
    /\ kop = "parse" /\ board.ok
    /\ \E r \in Cards(board) :
           /\ board.card[r].indent_level = 0
           /\ \E s \in Range(board.card[r].subtasks) :
                  /\ board.card[s].indent_level = 1
                  /\ \E t \in Range(board.card[s].subtasks) :
                         board.card[t].indent_level = 2

(***************************************************************************)
(* get_note_connections, call by call: walk.stack holds one frame for each *)
(* active "for outlink in ..." loop, the loop of get_note_connections at   *)
(* the bottom and one for each explore_connections call above it           *)
(***************************************************************************)
Frame(outlinks, d) == [ outlinks |-> outlinks, j |-> 1, d |-> d ]

\* graph = build_link_graph(...); find_note_by_name; connections = {}; visited = set()
StartExplore ==
    \E orders \in SetOrders(vault, NumNotes), note_name \in NoteRefs, depth \in 1..MaxDepth :
        LET g == build_link_graph(vault, orders)
            note_path == find_note_by_name(note_name)
        IN  /\ op = "none" /\ walk.pc = "idle"
            /\ op' = "get_note_connections"
            /\ graph' = g
            /\ walk' = [ pc |-> IF note_path = None \/ note_path \notin Keys(g)
                                THEN "done" ELSE "run",
                         note_name |-> note_name, depth |-> depth, note |-> note_path,
                         stack |-> IF note_path = None \/ note_path \notin Keys(g)
                                   THEN <<>>
                                   ELSE << Frame(g.node[note_path].outlinks, 1) >>,
                         visited |-> {}, entered |-> <<>> ]
            /\ UNCHANGED <<vault, orphaned, hubs, min_outlinks, health, conn,
                           kanbanVars, calls>>

\* the next iteration of the loop on top: explore_connections(outlink, d) up
\* to its own loop, for which a frame is pushed
CallExplore ==
    LET n == Len(walk.stack)
        top == walk.stack[n]
        current_path == top.outlinks[top.j]
        stepped == [ walk.stack EXCEPT ![n].j = @ + 1 ]
    IN  /\ walk.pc = "run"
        /\ top.j <= Len(top.outlinks)
        /\ walk' =
             IF Pruned(top.d, walk.depth, current_path, walk.visited)
             THEN [ walk EXCEPT !.stack = stepped ]
             ELSE IF current_path \notin Keys(graph)
             THEN [ walk EXCEPT !.stack = stepped, !.visited = @ \cup { current_path } ]
             ELSE [ walk EXCEPT
                      !.stack = Append(stepped,
                                       Frame(graph.node[current_path].outlinks, top.d + 1)),
                      !.visited = @ \cup { current_path },
                      !.entered = Append(@, [ path |-> current_path, depth |-> top.d ]) ]
        /\ UNCHANGED <<linkVars, kanbanVars, calls>>

\* the loop on top is through: the call returns; the result is there when the
\* loop of get_note_connections is through
ReturnExplore ==
    LET n == Len(walk.stack)
        top == walk.stack[n]
    IN  /\ walk.pc = "run"
        /\ top.j > Len(top.outlinks)
        /\ walk' = [ walk EXCEPT !.stack = SubSeq(@, 1, n - 1),
                                 !.pc = IF n = 1 THEN "done" ELSE "run" ]
        /\ UNCHANGED <<linkVars, kanbanVars, calls>>

\* the result is handed out and dropped
FinishExplore ==
    /\ walk.pc = "done"
    /\ walk' = NoWalk
    /\ op' = "none"
    /\ graph' = EmptyGraph
    /\ UNCHANGED <<vault, orphaned, hubs, min_outlinks, health, conn, kanbanVars, calls>>

NextExplore ==
    \/ StartExplore
    \/ CallExplore
    \/ ReturnExplore
    \/ FinishExplore

SpecExplore == InitLinks /\ [][NextExplore]_vars

\* a call that is started is not suspended: it runs on until it returns
SpecExploreFair == SpecExplore /\ WF_vars(CallExplore) /\ WF_vars(ReturnExplore)

\* the notes entered into the connections map so far
EnteredPaths == { walk.entered[i].path : i \in DOMAIN walk.entered }

\* no note was entered twice, none at a depth beyond the bound
EnteredOnceWithinBound ==
    walk.pc # "idle" =>
        /\ \A i, j \in DOMAIN walk.entered :
               walk.entered[i].path = walk.entered[j].path => i = j
        /\ \A i \in DOMAIN walk.entered :
               walk.entered[i].depth >= 1 /\ walk.entered[i].depth <= walk.depth
        /\ Len(walk.stack) <= walk.depth + 1

\* C24: the neighborhood traversal terminates on every graph, with cycles and
\* self-links, for every depth bound: a traversal that runs comes to its end;
\* no note is entered into the connections map more than once and none at a
\* depth greater than the bound.
C24_TraversalTerminates ==
    /\ [] EnteredOnceWithinBound
    /\ (walk.pc = "run") ~> (walk.pc = "done")

\* a traversal at its end on a graph where a note links to itself and two
\* notes link to each other, one of them pruned as visited
C24_Witness ==
    /\ walk.pc = "done"
    /\ walk.entered # <<>>
    /\ \E k \in Keys(graph) : InSeq(k, graph.node[k].outlinks)
    /\ \E k, m \in EnteredPaths :
           /\ k # m
           /\ InSeq(m, graph.node[k].outlinks) /\ InSeq(k, graph.node[m].outlinks)

\* the text and the column name a move or a toggle looks a card up with
Lookup ==
    IF kop = "move" THEN [ card_text |-> kargs.card_text, column_name |-> kargs.from_column ]
    ELSE [ card_text |-> kargs.card_text, column_name |-> kargs.column_name ]

\* the card that holds c among its subtasks, NoParent for a root card
ParentOf(b, c) ==
    IF \E p \in Cards(b) : InSeq(c, b.card[p].subtasks)
    THEN CHOOSE p \in Cards(b) : InSeq(c, b.card[p].subtasks)
    ELSE NoParent

\* the first searched column that holds c at any depth
ColumnHolding(b, column_name, c) ==
    CHOOSE i \in DOMAIN b.columns :
        LET holds(n) == /\ column_name = "None" \/ b.columns[n].name = column_name
                        /\ InSeq(c, FlattenIds(b, b.columns[n].cards))
        IN  holds(i) /\ \A n \in 1..(i - 1) : ~holds(n)

\* C25: find_card_in_board returns the first card whose text equals the query,
\* scanning the columns in board order and the cards of each in depth-first
\* pre-order, together with the column that holds it and its parent card (none
\* for a root card); with a column name only the columns of that name are
\* searched; it returns not-found exactly when no searched card has the text.
C25_FindFirstDepthFirst ==
    (kop \in { "move", "toggle" } /\ board.ok) =>
        LET found == find_card_in_board(board, Lookup.card_text, Lookup.column_name)
            ids == SearchedIds(board, Lookup.column_name, 1)
            hits == Matches(board, ids, Lookup.card_text)
        IN  /\ found.found <=> hits # {}
            /\ hits # {} =>
                   LET c == ids[CHOOSE k \in hits : \A j \in hits : k <= j]
                   IN  /\ found.card = c
                       /\ found.parent = ParentOf(board, c)
                       /\ found.column = ColumnHolding(board, Lookup.column_name, c)
                       /\ kret.ok => kret.card = c
            /\ hits = {} => ~kret.ok

\* a lookup within a column that finds a subtask, on a board where another
\* card has the same text
C25_Witness ==
    /\ kop = "move" /\ kret.ok
    /\ kret.parent # NoParent
    /\ Cardinality({ c \in Cards(board) : board.card[c].text = kargs.card_text }) > 1

NoRepeats(s) == \A i, j \in DOMAIN s : s[i] = s[j] => i = j

\* C26: no path occurs twice in any node's outlinks or in any node's inlinks
\* of the graph build_link_graph returns, also when a note refers to the same
\* file through several links or through distinct spellings that resolve to
\* the same file (the link_types counters may then exceed the length of
\* outlinks).
C26_NoDuplicateEdges ==
    op # "none" =>
        \A k \in Keys(graph) :
            /\ NoRepeats(graph.node[k].outlinks)
            /\ NoRepeats(graph.node[k].inlinks)

\* a note that links to one file three times, in two spellings: one outlink,
\* counter 3
C26_Witness ==
    /\ op = "build_link_graph"
    /\ \E i \in 1..NumNotes :
           /\ Cardinality(all_links_set(vault[i].content)) = 2
           /\ Cardinality({ ResolveLink(l) : l \in all_links_set(vault[i].content) }) = 1
           /\ Len(graph.node[WalkOrder[i]].outlinks) = 1
           /\ graph.node[WalkOrder[i]].link_types.wikilinks = 3

\* length of the shortest walk of 1..d outlink edges from a to n, 0 when none
ShortestWithin(g, a, n, d) ==
    LET ks == { k \in 1..d : n \in WalkEnds(g, {a}, k) }
    IN  IF ks = {} THEN 0 ELSE CHOOSE k \in ks : \A m \in ks : k <= m

\* C27: the connections map of the neighborhood with depth bound d is the
\* result of a breadth-first search: it holds every note other than the start
\* whose shortest outlink distance from the start note is between 1 and d,
\* and the depth recorded for a note is that shortest distance.
C27_ConnectionsBreadthFirst ==
    (op = "get_note_connections" /\ conn.status = "ok") =>
        \A n \in Keys(graph) \ { conn.note } :
            LET k == ShortestWithin(graph, conn.note, n, conn.depth)
            IN  /\ n \in DOMAIN conn.connections <=> k # 0
                /\ n \in DOMAIN conn.connections => conn.connections[n].depth = k

\* C28: graph edges and broken links partition the extracted links: for every
\* readable note S and every target T of its all_links, either the graph holds
\* an outlink from S to the file find_note_by_name returns for T, or
\* analyze_link_health counts (S, T) as a broken link, never neither and never
\* both.
C28_EdgeOrBroken ==
    op = "analyze_link_health" =>
        \A i \in 1..NumNotes :
            vault[i].readable =>
                \A t \in all_links_set(vault[i].content) :
                    LET file_found == find_note_by_name(t)
                        edge == /\ file_found # None
                                /\ InSeq(file_found, graph.node[WalkOrder[i]].outlinks)
                        broken == Occurrences(health.broken_links,
                                      [source_file |-> WalkOrder[i], target |-> t]) > 0
                    IN  edge <=> ~broken

\* a list of cards without the card m
Without(cards, m) ==
    SelectIdx(cards, [i \in DOMAIN cards |-> cards[i] # m], 1)

\* the column that holds the card c at any depth
ColumnOf(b, c) ==
    CHOOSE i \in DOMAIN b.columns : InSeq(c, FlattenIds(b, b.columns[i].cards))

\* the cards below the card m
Descendants(b, m) == Range(FlattenIds(b, b.card[m].subtasks))

\* the board after the move holds the cards of the board before it, each once,
\* with text, status and due date as before; every list of cards, the moved
\* card left out, is as before: the other cards keep parent and order
MoveKeepsCards ==
    LET m == kret.card
    IN  /\ Cards(after) = Cards(board)
        /\ \A c \in Cards(board) :
               /\ PlacesInColumns(after, c) + PlacesInCards(after, c) = 1
               /\ after.card[c].text = board.card[c].text
               /\ after.card[c].status = board.card[c].status
               /\ after.card[c].due_date = board.card[c].due_date
               /\ Without(after.card[c].subtasks, m) = Without(board.card[c].subtasks, m)
        /\ Len(after.columns) = Len(board.columns)
        /\ \A i \in DOMAIN board.columns :
               /\ after.columns[i].name = board.columns[i].name
               /\ Without(after.columns[i].cards, m) = Without(board.columns[i].cards, m)
        /\ file = write_kanban_board(after)
        /\ Cardinality({ l \in DOMAIN file : CardMatch(file[l]) }) = Cardinality(Cards(board))

\* C29 as stated: move_kanban_card conserves cards: after a successful move
\* the board written to the file holds exactly the cards of the board parsed
\* before the move (none lost, none duplicated, same text, status and due
\* date), and every card other than the moved one keeps its column, its parent
\* and its order among its siblings.
C29_MoveConservesCards ==
    Moved =>
        /\ MoveKeepsCards
        /\ \A c \in Cards(board) \ { kret.card } : ColumnOf(after, c) = ColumnOf(board, c)

\* C29, amended: after a successful move the board written to the file holds
\* exactly the cards of the board parsed before the move (none lost, none
\* duplicated, same text, status and due date), every card other than the
\* moved one keeps its parent and its order among its siblings, the cards
\* below the moved card are in the destination column with it, and every
\* other card keeps its column.
C29_MoveConservesCardsAmended ==
    Moved =>
        /\ MoveKeepsCards
        /\ \A c \in Descendants(board, kret.card) : ColumnOf(after, c) = kret.dest_column
        /\ \A c \in Cards(board) \ ({ kret.card } \cup Descendants(board, kret.card)) :
               ColumnOf(after, c) = ColumnOf(board, c)

\* a root card moved with its subtasks to another column
C29_Witness ==
    /\ Moved
    /\ kret.source_column # kret.dest_column
    /\ board.card[kret.card].indent_level = 0
    /\ Descendants(board, kret.card) # {}

====
